---- MODULE Spec2Model ----
(***************************************************************************)
(* Model of the yamlfig configuration nodes: the path mini-language of     *)
(* ComposedNode (split_path / join_path), the node heap with its merge     *)
(* flags, and the tree operations of ComposedNode / ConfigDict / ConfigNode *)
(* (set_child, remove_child, get_node, filter_nodes, map_nodes, merge).    *)
(*                                                                         *)
(* Python objects live in a heap indexed by identity (a natural number);   *)
(* None is the identity 0.  An optional attribute is a sequence of length  *)
(* at most one: << >> is None, <<v>> is the value v.                       *)
(***************************************************************************)
EXTENDS Integers, Sequences, FiniteSets, TLC

VARIABLES
    path_str,    \* the argument of split_path: a sequence of characters
    path_pc,     \* "start", "split", "invalid", "joined"
    path_list,   \* the components yielded by split_path
    path_out,    \* the string returned by join_path
    heap,        \* identity -> node object
    pc,          \* "ready" before the operation, "done" after it
    op,          \* the operation that ran and its arguments
    pre,         \* the heap when the operation was called
    ret,         \* what the operation returned (identity, 0 for None)
    raised,      \* the exception the operation raised, "" for none
    calls,       \* the nodes the map_fn of map_nodes was called on, in order
    nodes_memo,  \* the memo table of a build: identity of a raw value -> node
    ret_list,    \* the list an operation returned (get_node with intermediate=True)
    events,      \* what one merge did, in order: hook invocations and mutations
    tl_value,    \* thread -> ConfigNode._default_filename.value of that thread
    tl_frames,   \* thread -> the stack of the default_filename scopes it is inside
    steps,       \* the number of operations applied so far
    scan         \* the frame of _get_metadata_content: data, curr_pos, end, positions seen

vars == <<path_str, path_pc, path_list, path_out, heap, pc, op, pre, ret, raised, calls,
          nodes_memo, ret_list, events, tl_value, tl_frames, steps, scan>>

pathVars == <<path_str, path_pc, path_list, path_out>>
treeVars == <<heap, pc, op, pre, ret, raised, calls>>
extraVars == <<nodes_memo, ret_list, events, tl_value, tl_frames, steps, scan>>

----------------------------------------------------------------------------
(* Bounds *)

MaxPathLen == 4

\* the native values of scalar nodes are 0..MaxValue (0 is the empty, false one)
MaxValue == 1

----------------------------------------------------------------------------
(* Small helpers *)

None == 0

\* F applied to the value of x, which is computed once
Let1(x, F(_)) == CHOOSE v \in {F(y) : y \in {x}} : TRUE

RECURSIVE SeqsUpTo(_, _)
SeqsUpTo(S, n) ==
    IF n = 0 THEN {<< >>}
    ELSE LET shorter == SeqsUpTo(S, n - 1)
         IN  shorter \cup {Append(s, c) : s \in {t \in shorter : Len(t) = n - 1}, c \in S}

----------------------------------------------------------------------------
(* The path language: ComposedNode._path_component_regex, split_path,      *)
(* join_path.  A string is a sequence of one-character strings.            *)

IdentChars == {"a", "0", "1"}     \* members of [a-zA-Z0-9_] in the alphabet
DigitChars == {"0", "1"}          \* members of [0-9] in the alphabet
PathAlphabet == {"a", "0", "1", ".", "[", "]", "-"}

Digits == <<"0", "1", "2", "3", "4", "5", "6", "7", "8", "9">>

DigitValue(c) == CHOOSE d \in 0..9 : Digits[d + 1] = c

\* the end (exclusive, 1-based) of the longest run of characters of S from i
RECURSIVE RunEnd(_, _, _)
RunEnd(s, i, S) ==
    IF i <= Len(s) /\ s[i] \in S THEN RunEnd(s, i + 1, S) ELSE i

\* the regular expression tried at 1-based position i; a match is
\* [start, end (exclusive), kind, text], no match is << >>
RegexMatchAt(s, i) ==
    IF /\ s[i] \in IdentChars
       /\ (i = 1 \/ s[i - 1] = ".")
    THEN LET e == RunEnd(s, i, IdentChars)
         IN  <<[start |-> i, end |-> e, kind |-> "name", text |-> SubSeq(s, i, e - 1)]>>
    ELSE IF s[i] = "["
    THEN LET d == IF i + 1 <= Len(s) /\ s[i + 1] = "-" THEN i + 2 ELSE i + 1
             e == RunEnd(s, d, DigitChars)
         IN  IF e > d /\ e <= Len(s) /\ s[e] = "]"
             THEN <<[start |-> i, end |-> e + 1, kind |-> "index", text |-> SubSeq(s, i + 1, e - 1)]>>
             ELSE << >>
    ELSE IF /\ s[i] = "."
            /\ i # 1
            /\ i # Len(s)
            /\ s[i + 1] # "."
            /\ s[i + 1] # "["
    THEN <<[start |-> i, end |-> i + 1, kind |-> "dot", text |-> <<".">>]>>
    ELSE << >>

\* re.finditer: the non-overlapping matches, scanning left to right
RECURSIVE FindIter(_, _)
FindIter(s, i) ==
    IF i > Len(s) THEN << >>
    ELSE LET m == RegexMatchAt(s, i)
         IN  IF m = << >> THEN FindIter(s, i + 1)
             ELSE m \o FindIter(s, m[1].end)

\* int(text) of an optionally signed decimal numeral
RECURSIVE ParseNat(_)
ParseNat(t) ==
    IF t = << >> THEN 0
    ELSE 10 * ParseNat(SubSeq(t, 1, Len(t) - 1)) + DigitValue(t[Len(t)])

ParseInt(t) ==
    IF t[1] = "-" THEN 0 - ParseNat(Tail(t)) ELSE ParseNat(t)

\* str(n) of an integer
RECURSIVE NatToStr(_)
NatToStr(n) ==
    IF n < 10 THEN <<Digits[n + 1]>>
    ELSE Append(NatToStr(n \div 10), Digits[(n % 10) + 1])

IntToStr(n) == IF n < 0 THEN <<"-">> \o NatToStr(0 - n) ELSE NatToStr(n)

\* the validation loop of split_path: TRUE when it raises ValueError
RECURSIVE HasGap(_, _, _)
HasGap(ms, k, end) ==
    IF k > Len(ms) THEN FALSE
    ELSE IF ms[k].start # end THEN TRUE
    ELSE HasGap(ms, k + 1, ms[k].end)

RECURSIVE Components(_)
Components(ms) ==
    IF ms = << >> THEN << >>
    ELSE LET m == ms[1]
             c == IF m.kind = "name" THEN <<[kind |-> "name", name |-> m.text, index |-> 0]>>
                  ELSE IF m.kind = "index"
                  THEN <<[kind |-> "index", name |-> << >>, index |-> ParseInt(m.text)]>>
                  ELSE << >>
         IN  c \o Components(Tail(ms))

\* split_path without the check of the part after the last match
split_path_NoSuffixCheck(s) ==
    LET ms == FindIter(s, 1)
    IN  IF HasGap(ms, 1, 1)
        THEN [ok |-> FALSE, components |-> << >>]
        ELSE [ok |-> TRUE, components |-> Components(ms)]

\* split_path(path_str, validate=True): [ok, components]
split_path(s) ==
    LET ms  == FindIter(s, 1)
        end == IF ms = << >> THEN 0 ELSE ms[Len(ms)].end - 1
    IN  IF HasGap(ms, 1, 1) \/ (s # << >> /\ (ms = << >> \/ end # Len(s)))
        THEN [ok |-> FALSE, components |-> << >>]
        ELSE [ok |-> TRUE, components |-> Components(ms)]

\* _get_child_accessor putting the dot before an index as well
_get_child_accessor_DotBeforeIndex(childname, myname) ==
    (IF myname # << >> THEN <<".">> ELSE << >>)
        \o (IF childname.kind = "index"
            THEN <<"[">> \o IntToStr(childname.index) \o <<"]">>
            ELSE childname.name)

_get_child_accessor(childname, myname) ==
    IF childname.kind = "index"
    THEN <<"[">> \o IntToStr(childname.index) \o <<"]">>
    ELSE (IF myname # << >> THEN <<".">> ELSE << >>) \o childname.name

RECURSIVE JoinFrom(_, _, _)
JoinFrom(path_list_, k, acc) ==
    IF k > Len(path_list_) THEN acc
    ELSE JoinFrom(path_list_, k + 1, acc \o _get_child_accessor(path_list_[k], acc))

join_path(pl) == JoinFrom(pl, 1, << >>)

----------------------------------------------------------------------------
(* Nodes.  Every composed node of the model is a ConfigDict: it has the    *)
(* children mapping of ComposedNode (_children) and the storage of the     *)
(* dict it derives from (items); both keep insertion order.  A mapping is  *)
(* a sequence of entries [name, node].                                     *)

WEAK == 0 - 1
STANDARD == 0
FORCE == 1

_default_priority == STANDARD
_default_delete == FALSE
_default_allow_new == TRUE

Names == {"a", "b", "keys"}

\* the names in dir(type(self)) of a ConfigDict among Names: "keys" is a dict method
ClassAttrs == {"keys"}

Leaf(prio, del, allow, val) ==
    [kind |-> "leaf", _priority |-> prio, _delete |-> del, _allow_new |-> allow,
     _implicit_delete |-> << >>, _implicit_allow_new |-> << >>,
     value |-> val, _children |-> << >>, items |-> << >>]

Dict(prio, del, allow, ch) ==
    [kind |-> "dict", _priority |-> prio, _delete |-> del, _allow_new |-> allow,
     _implicit_delete |-> << >>, _implicit_allow_new |-> << >>,
     value |-> 0, _children |-> ch, items |-> ch]

Entry(name, node) == [name |-> name, node |-> node]

\* a value handed to set_child or returned by a map_fn: a node or a raw (native) value
NodeVal(n) == [isnode |-> TRUE, node |-> n, raw |-> 0]
RawVal(v) == [isnode |-> FALSE, node |-> None, raw |-> v]

HasKey(m, name) == \E k \in 1..Len(m) : m[k].name = name

Lookup(m, name) ==
    IF HasKey(m, name) THEN m[CHOOSE k \in 1..Len(m) : m[k].name = name].node ELSE None

\* m[name] = node: an existing key keeps its position, a new key goes last
Store(m, name, node) ==
    IF HasKey(m, name)
    THEN [k \in 1..Len(m) |-> IF m[k].name = name THEN Entry(name, node) ELSE m[k]]
    ELSE Append(m, Entry(name, node))

Drop(m, name) == SelectSeq(m, LAMBDA e : e.name # name)

priority(h, n) ==
    IF h[n]._priority = << >> THEN _default_priority ELSE h[n]._priority[1]

delete(h, n) ==
    IF h[n]._delete = << >>
    THEN IF h[n]._implicit_delete # << >> THEN h[n]._implicit_delete[1] ELSE _default_delete
    ELSE h[n]._delete[1]

allow_new(h, n) ==
    IF h[n]._implicit_allow_new # << >> THEN h[n]._implicit_allow_new[1]
    ELSE _default_allow_new

is_leaf(h, n) == h[n].kind = "leaf"

\* has_priority_over ignoring if_equal
has_priority_over_Strict(h, self, other, if_equal) ==
    priority(h, self) > priority(h, other)

has_priority_over(h, self, other, if_equal) ==
    IF priority(h, self) = priority(h, other) THEN if_equal
    ELSE priority(h, self) > priority(h, other)

\* bool(scalar node): a scalar node is its native value, empty content is false
ScalarIsTrue(v) == v # 0

\* bool(node): a ConfigDict is a dict, true when its storage is not empty
IsTrue(h, n) ==
    IF h[n].kind = "dict" THEN Len(h[n].items) > 0 ELSE ScalarIsTrue(h[n].value)

has_child(h, self, name) == HasKey(h[self]._children, name)

get_child(h, self, name) == Lookup(h[self]._children, name)

\* ConfigNode(value) constructing a new node also when the value is a node
ConfigNodeCall_Copy(h, v) ==
    [h |-> Append(h, IF v.isnode THEN h[v.node] ELSE Leaf(<< >>, << >>, << >>, v.raw)),
     node |-> Len(h) + 1]

\* ConfigNode(value) without flags: a node is returned as it is, a raw value is
\* deduced to be a scalar and a new node is constructed for it
ConfigNodeCall(h, v) ==
    IF v.isnode THEN [h |-> h, node |-> v.node]
    ELSE [h |-> Append(h, Leaf(<< >>, << >>, << >>, v.raw)), node |-> Len(h) + 1]

\* ConfigDict._set, reached by set_child: [h, err, node]
_set(h, self, name, v) ==
    IF name \in ClassAttrs THEN [h |-> h, err |-> "ValueError", node |-> None]
    ELSE LET c  == ConfigNodeCall(h, v)
             h1 == [c.h EXCEPT ![self]._children = Store(@, name, c.node)]
             h2 == [h1 EXCEPT ![self].items = Store(@, name, c.node)]
         IN  [h |-> h2, err |-> "", node |-> c.node]

set_child(h, self, name, v) == _set(h, self, name, v)

\* ConfigDict._del, reached by remove_child: [h, err]
_del(h, self, name) ==
    LET h1 == [h EXCEPT ![self]._children = Drop(@, name)]
    IN  IF HasKey(h[self].items, name)
        THEN [h |-> [h1 EXCEPT ![self].items = Drop(@, name)], err |-> ""]
        ELSE [h |-> h1, err |-> "KeyError"]

remove_child(h, self, name) == _del(h, self, name)

\* the list get_node builds: self, then the node of every component found, then
\* None for the first component that is missing
RECURSIVE NodeChain(_, _, _, _)
NodeChain(h, node, path, k) ==
    IF k > Len(path) THEN << >>
    ELSE IF is_leaf(h, node) \/ ~has_child(h, node, path[k]) THEN <<None>>
    ELSE LET nxt == get_child(h, node, path[k])
         IN  <<nxt>> \o NodeChain(h, nxt, path, k + 1)

\* get_node(path, intermediate=True, incomplete=True)
get_node_chain(h, self, path) == <<self>> \o NodeChain(h, self, path, 1)

\* get_node(path): the node at the path, None when a component is missing
get_node(h, self, path) ==
    LET chain == get_node_chain(h, self, path) IN chain[Len(chain)]

get_first_not_missing_node(h, self, path) ==
    LET nodes == get_node_chain(h, self, path)
    IN  IF nodes[Len(nodes)] # None THEN nodes[Len(nodes)] ELSE nodes[Len(nodes) - 1]

----------------------------------------------------------------------------
(* filter_nodes.  The condition is data: "maybe_keep" is the closure merge *)
(* builds over its source node, "keep" is a caller's predicate given as    *)
(* the set of nodes it is true for.                                        *)

MaybeKeep(other) == [type |-> "maybe_keep", other |-> other, keep |-> {}]
KeepSet(S) == [type |-> "keep", other |-> None, keep |-> S]

maybe_keep(h, other, path, node) ==
    LET found == get_node(h, other, path)
    IN  IF found # None /\ IsTrue(h, found) THEN TRUE
        ELSE has_priority_over(h, node, get_first_not_missing_node(h, other, path), FALSE)

condition(h, cond, path, node) ==
    IF cond.type = "maybe_keep" THEN maybe_keep(h, cond.other, path, node)
    ELSE node \in cond.keep

RECURSIVE RemoveAll(_, _, _, _)
RemoveAll(h, self, names, k) ==
    IF k = 0 THEN [h |-> h, err |-> ""]
    ELSE Let1(remove_child(h, self, names[k]),
              LAMBDA r : IF r.err # "" THEN r ELSE RemoveAll(r.h, self, names, k - 1))

RECURSIVE filter_nodes(_, _, _, _)
RECURSIVE FilterLoop(_, _, _, _, _, _)
FilterLoop(h, self, cond, prefix, k, to_del) ==
    IF k > Len(h[self]._children) THEN [h |-> h, err |-> "", to_del |-> to_del]
    ELSE LET name       == h[self]._children[k].name
             child      == h[self]._children[k].node
             child_path == Append(prefix, name)
             keep0      == condition(h, cond, child_path, child)
         IN  IF is_leaf(h, child)
             THEN FilterLoop(h, self, cond, prefix, k + 1,
                             IF keep0 THEN to_del ELSE Append(to_del, name))
             ELSE Let1(filter_nodes(h, child, cond, child_path),
                       LAMBDA r :
                         IF r.err # "" THEN [h |-> r.h, err |-> r.err, to_del |-> to_del]
                         ELSE FilterLoop(r.h, self, cond, prefix, k + 1,
                                         IF keep0 /\ IsTrue(r.h, r.ret) THEN to_del
                                         ELSE Append(to_del, name)))

filter_nodes(h, self, cond, prefix) ==
    Let1(FilterLoop(h, self, cond, prefix, 1, << >>),
         LAMBDA l :
           IF l.err # "" THEN [h |-> l.h, err |-> l.err, ret |-> None]
           ELSE Let1(RemoveAll(l.h, self, l.to_del, Len(l.to_del)),
                     LAMBDA r : [h |-> r.h, err |-> r.err,
                                 ret |-> IF r.err = "" THEN self ELSE None]))

----------------------------------------------------------------------------
(* map_nodes.  The map_fn is data: "on_premerge" and "on_preprocess" are   *)
(* the default hooks, which return the node; "on_evaluate" is the default  *)
(* hook, which returns the node's value (a ConfigDict is its own value, a  *)
(* scalar's value is native); "rebuild" is a caller's function returning a *)
(* newly constructed node for every leaf.                                  *)

MapFns == {"on_premerge", "on_evaluate", "rebuild"}

\* the identity persistent_id(obj) keeps alive and returns
persistent_id(n) == n

\* map_fn(path, node): [h, v]
map_fn(tf, h, path, node) ==
    IF tf = "on_evaluate" /\ is_leaf(h, node)
    THEN [h |-> h, v |-> RawVal(h[node].value)]
    ELSE IF tf = "rebuild" /\ is_leaf(h, node)
    THEN [h |-> Append(h, h[node]), v |-> NodeVal(Len(h) + 1)]
    ELSE [h |-> h, v |-> NodeVal(node)]

\* the cache test without the lookup
CacheHit_Never(cache_results, cache, child) == FALSE

\* cache_results and id(child) in cache
CacheHit(cache_results, cache, child) == cache_results /\ child \in DOMAIN cache

RECURSIVE SetAll(_, _, _, _)
SetAll(h, self, to_re_set, k) ==
    IF k > Len(to_re_set) THEN [h |-> h, err |-> ""]
    ELSE Let1(set_child(h, self, to_re_set[k].name, to_re_set[k].v),
              LAMBDA r : IF r.err # "" THEN [h |-> r.h, err |-> r.err]
                         ELSE SetAll(r.h, self, to_re_set, k + 1))

\* a call of the map_fn: the node, its children when it is called, what it returned
Hook(h, node, v) == [node |-> node, children |-> h[node]._children, ret |-> v]

\* the possibly_new_child is not child test never true
IsNot_Never(v, child) == FALSE

\* possibly_new_child is not child
IsNot(v, child) == ~v.isnode \/ v.node # child

\* the state map_nodes threads through: [h, cache, calls, hooks, err]
RECURSIVE map_nodes(_, _, _, _, _, _)
RECURSIVE MapLoop(_, _, _, _, _, _, _, _)
MapLoop(st, self, tf, prefix, cache_results, leafs_only, k, to_re_set) ==
    IF k > Len(st.h[self]._children) THEN [st |-> st, to_re_set |-> to_re_set]
    ELSE LET name  == st.h[self]._children[k].name
             child == st.h[self]._children[k].node
             child_path == Append(prefix, name)
         IN  Let1(IF CacheHit(cache_results, st.cache, child)
                  THEN [st |-> st, ret |-> st.cache[child]]
                  ELSE IF ~is_leaf(st.h, child)
                  THEN map_nodes(st, child, tf, child_path, cache_results, leafs_only)
                  ELSE Let1(map_fn(tf, st.h, child_path, child),
                            LAMBDA f : [st  |-> [st EXCEPT !.h = f.h, !.calls = Append(@, child),
                                                           !.hooks = Append(@, Hook(st.h, child, f.v))],
                                        ret |-> f.v]),
                  LAMBDA r :
                    IF r.st.err # "" THEN [st |-> r.st, to_re_set |-> to_re_set]
                    ELSE Let1(IF cache_results
                              THEN [r.st EXCEPT !.cache = (persistent_id(child) :> r.ret) @@ @]
                              ELSE r.st,
                              LAMBDA st1 :
                                MapLoop(st1, self, tf, prefix, cache_results, leafs_only, k + 1,
                                        IF IsNot(r.ret, child)
                                        THEN Append(to_re_set, [name |-> name, v |-> r.ret])
                                        ELSE to_re_set)))

map_nodes(st, self, tf, prefix, cache_results, leafs_only) ==
    Let1(MapLoop(st, self, tf, prefix, cache_results, leafs_only, 1, << >>),
         LAMBDA l :
           IF l.st.err # "" THEN [st |-> l.st, ret |-> NodeVal(None)]
           ELSE Let1(SetAll(l.st.h, self, l.to_re_set, 1),
                     LAMBDA s :
                       IF s.err # ""
                       THEN [st |-> [l.st EXCEPT !.h = s.h, !.err = s.err], ret |-> NodeVal(None)]
                       ELSE IF leafs_only
                       THEN [st |-> [l.st EXCEPT !.h = s.h], ret |-> NodeVal(self)]
                       ELSE Let1(map_fn(tf, s.h, prefix, self),
                                 LAMBDA f :
                                   [st  |-> [l.st EXCEPT !.h = f.h, !.calls = Append(@, self),
                                                          !.hooks = Append(@, Hook(s.h, self, f.v))],
                                    ret |-> f.v])))

MapStart(h) == [h |-> h, cache |-> << >>, calls |-> << >>, hooks |-> << >>, err |-> ""]

\* ComposedNode.premerge / ConfigNode.premerge of the node `self`
premerge(h, self) ==
    IF is_leaf(h, self) THEN [h |-> h, err |-> ""]
    ELSE Let1(map_nodes(MapStart(h), self, "on_premerge", << >>, TRUE, FALSE),
              LAMBDA r : [h |-> r.st.h, err |-> r.st.err])

----------------------------------------------------------------------------
(* merge *)

\* the part of the merge loop after the try block: m is the outcome of child.merge(value),
\* "leaf" when the child is a leaf and merge was not called
AfterChildMerge(m, self, key, value, child) ==
    IF m.err = ""
    THEN IF ~IsTrue(m.h, m.ret) /\ ~has_priority_over(m.h, m.ret, value, FALSE)
         THEN remove_child(m.h, self, key)
         ELSE IF m.ret # child
         THEN Let1(set_child(m.h, self, key, NodeVal(m.ret)),
                   LAMBDA c : [h |-> c.h, err |-> c.err])
         ELSE [h |-> m.h, err |-> ""]
    ELSE IF has_priority_over(m.h, value, child, TRUE)
         THEN IF ~IsTrue(m.h, value) /\ delete(m.h, value)
              THEN remove_child(m.h, self, key)
              ELSE Let1(set_child(m.h, self, key, NodeVal(value)),
                        LAMBDA c : [h |-> c.h, err |-> c.err])
         ELSE [h |-> m.h, err |-> ""]

\* ComposedNode.merge(self, other): [h, err, ret]
RECURSIVE merge(_, _, _)
RECURSIVE MergeLoop(_, _, _, _)
MergeLoop(h, self, other, k) ==
    IF k > Len(h[other]._children) THEN [h |-> h, err |-> ""]
    ELSE LET key   == h[other]._children[k].name
             value == h[other]._children[k].node
             child == get_child(h, self, key)
         IN  IF child = None
             THEN Let1(set_child(h, self, key, NodeVal(value)),
                       LAMBDA r : IF r.err # "" THEN [h |-> r.h, err |-> r.err]
                                  ELSE MergeLoop(r.h, self, other, k + 1))
             ELSE Let1(IF is_leaf(h, child) THEN [h |-> h, err |-> "leaf", ret |-> None]
                       ELSE merge(h, child, value),
                       LAMBDA m :
                         IF m.err \notin {"", "leaf", "TypeError", "AttributeError"}
                         THEN [h |-> m.h, err |-> m.err]
                         ELSE Let1(AfterChildMerge(m, self, key, value, child),
                                   LAMBDA r : IF r.err # "" THEN [h |-> r.h, err |-> r.err]
                                              ELSE MergeLoop(r.h, self, other, k + 1)))

merge(h, self, other) ==
    Let1(premerge(h, other),
         LAMBDA p :
           IF p.err # "" THEN [h |-> p.h, err |-> p.err, ret |-> None]
           ELSE IF is_leaf(p.h, other)
           THEN [h |-> p.h, err |-> "AttributeError", ret |-> None]
           ELSE Let1(IF delete(p.h, other)
                     THEN filter_nodes(p.h, self, MaybeKeep(other), << >>)
                     ELSE [h |-> p.h, err |-> "", ret |-> self],
                     LAMBDA f :
                       IF f.err # "" THEN [h |-> f.h, err |-> f.err, ret |-> None]
                       ELSE Let1(MergeLoop(f.h, self, other, 1),
                                 LAMBDA l : [h |-> l.h, err |-> l.err,
                                             ret |-> IF l.err = "" THEN self ELSE None])))

\* ConfigDict.merge(self, other): [h, err]
RECURSIVE DictMergeLoop(_, _, _, _)
DictMergeLoop(h, self, other, k) ==
    IF is_leaf(h, other) THEN [h |-> h, err |-> "AttributeError"]
    ELSE IF k > Len(h[other].items) THEN [h |-> h, err |-> ""]
    ELSE LET name  == h[other].items[k].name
             value == h[other].items[k].node
         IN  Let1(IF has_child(h, self, name) /\ ~is_leaf(h, Lookup(h[self].items, name))
                  THEN DictMergeLoop(h, Lookup(h[self].items, name), value, 1)
                  ELSE Let1(set_child(h, self, name, NodeVal(value)),
                            LAMBDA c : [h |-> c.h, err |-> c.err]),
                  LAMBDA r : IF r.err # "" THEN r ELSE DictMergeLoop(r.h, self, other, k + 1))

dict_merge(h, self, other) == DictMergeLoop(h, self, other, 1)

\* ConfigNode.merge(self, other) of a leaf; other is None or a node: [err, ret]
node_merge(h, self, other) ==
    IF other = None
    THEN IF ~allow_new(h, self) THEN [err |-> "ValueError", ret |-> None]
         ELSE [err |-> "", ret |-> self]
    ELSE IF has_priority_over(h, self, other, FALSE) THEN [err |-> "", ret |-> self]
    ELSE [err |-> "", ret |-> other]

----------------------------------------------------------------------------
(* Merging a source layer into a destination.  Node 1 is the destination   *)
(* root, node 2 the source root, nodes 3 and 4 belong to the destination   *)
(* layer, nodes 5 and 6 to the source layer.                               *)

NoOp ==
    [name |-> "none", self |-> None, other |-> None, tf |-> "", cache_results |-> FALSE,
     leafs_only |-> FALSE, keep |-> {}]

\* the path variables while a tree specification runs, and the reverse
PathIdle ==
    /\ path_str = << >>
    /\ path_pc = "idle"
    /\ path_list = << >>
    /\ path_out = << >>

\* the variables only some specifications use, before anything ran
ExtraIdle ==
    /\ nodes_memo = << >>
    /\ ret_list = << >>
    /\ events = << >>
    /\ tl_value = << >>
    /\ tl_frames = << >>
    /\ steps = 0
    /\ scan = << >>

TreeIdle ==
    /\ heap = << >>
    /\ pc = "idle"
    /\ op = NoOp
    /\ pre = << >>
    /\ ret = None
    /\ raised = ""
    /\ calls = << >>

PriorityOpts == {<<WEAK>>, << >>, <<FORCE>>}
DeleteOpts == {<< >>, <<TRUE>>}
AllowNewOpts == {<< >>, <<FALSE>>}
Values == 0..MaxValue

DestRootShapes == {<<Entry("a", 3)>>, <<Entry("a", 3), Entry("b", 4)>>}
DestInnerShapes == {<< >>, <<Entry("b", 4)>>}
SrcRootShapes ==
    {<<Entry("a", 5)>>, <<Entry("a", 5), Entry("b", 6)>>, <<Entry("a", 5), Entry("keys", 6)>>}
SrcInnerShapes == {<< >>, <<Entry("b", 6)>>, <<Entry("keys", 6)>>}

DestNodes3 ==
    {Leaf(p, << >>, << >>, 1) : p \in {<< >>, <<FORCE>>}}
        \cup {Dict(p, << >>, << >>, ch) : p \in {<< >>, <<FORCE>>}, ch \in DestInnerShapes}

SrcNodes5 ==
    {Leaf(p, d, << >>, 1) : p \in PriorityOpts, d \in DeleteOpts}
        \cup {Dict(p, d, << >>, ch) : p \in PriorityOpts, d \in DeleteOpts, ch \in SrcInnerShapes}

\* the same layers with every flag left unset
PlainHeaps ==
    {<<Dict(<< >>, << >>, << >>, dch), Dict(<< >>, << >>, << >>, sch), n3,
       Leaf(<< >>, << >>, << >>, 1), n5, Leaf(<< >>, << >>, << >>, v6)>> :
        dch \in DestRootShapes, sch \in SrcRootShapes,
        n3 \in {Leaf(<< >>, << >>, << >>, 1)}
                 \cup {Dict(<< >>, << >>, << >>, ch) : ch \in DestInnerShapes},
        n5 \in {Leaf(<< >>, << >>, << >>, v) : v \in Values}
                 \cup {Dict(<< >>, << >>, << >>, ch) : ch \in SrcInnerShapes},
        v6 \in Values}

TreeStart ==
    /\ pc = "ready"
    /\ op = NoOp
    /\ pre = heap
    /\ ret = None
    /\ raised = ""
    /\ calls = << >>
    /\ PathIdle
    /\ ExtraIdle

MergeInit ==
    /\ \E dch \in DestRootShapes, sd \in DeleteOpts, sch \in SrcRootShapes,
          n3 \in DestNodes3, p4 \in {<<STANDARD>>, <<FORCE>>}, n5 \in SrcNodes5,
          p6 \in PriorityOpts, d6 \in DeleteOpts, a6 \in AllowNewOpts, v6 \in Values :
            heap = <<Dict(<< >>, << >>, << >>, dch), Dict(<< >>, sd, << >>, sch), n3,
                     Leaf(p4, << >>, << >>, 1), n5, Leaf(p6, d6, a6, v6)>>
    /\ TreeStart

PlainInit == heap \in PlainHeaps /\ TreeStart

\* destination.merge(source) of ComposedNode
Merge ==
    /\ pc = "ready"
    /\ \E r \in {merge(heap, 1, 2)} :
          /\ heap' = r.h
          /\ raised' = r.err
          /\ ret' = r.ret
    /\ op' = [NoOp EXCEPT !.name = "merge", !.self = 1, !.other = 2]
    /\ pc' = "done"
    /\ UNCHANGED <<pre, calls>>
    /\ UNCHANGED pathVars
    /\ UNCHANGED extraVars

\* destination.merge(source) of ConfigDict
DictMerge ==
    /\ pc = "ready"
    /\ \E r \in {dict_merge(heap, 1, 2)} :
          /\ heap' = r.h
          /\ raised' = r.err
    /\ ret' = None
    /\ op' = [NoOp EXCEPT !.name = "dict_merge", !.self = 1, !.other = 2]
    /\ pc' = "done"
    /\ UNCHANGED <<pre, calls>>
    /\ UNCHANGED pathVars
    /\ UNCHANGED extraVars

MergeNext == Merge

DictMergeNext == Merge \/ DictMerge

SpecDictMerge == PlainInit /\ [][DictMergeNext]_vars

SpecMerge == MergeInit /\ [][MergeNext]_vars

----------------------------------------------------------------------------
(* ConfigNode.merge of a leaf: node 1 is the incoming node (self), node 2  *)
(* the node of the destination (other), which may also be absent.          *)

AllPriorityOpts == {<< >>, <<WEAK>>, <<STANDARD>>, <<FORCE>>}
FlagOpts == {<< >>, <<FALSE>>, <<TRUE>>}

LeafHeaps ==
    {<<[Leaf(p1, << >>, a1, 1) EXCEPT !._implicit_allow_new = i1], Leaf(p2, << >>, << >>, 0)>> :
        p1 \in AllPriorityOpts, a1 \in FlagOpts, i1 \in FlagOpts, p2 \in AllPriorityOpts}

LeafInit == heap \in LeafHeaps /\ TreeStart

NodeMerge ==
    /\ pc = "ready"
    /\ \E other \in {None, 2} :
          /\ LET r == node_merge(heap, 1, other)
             IN  /\ raised' = r.err
                 /\ ret' = r.ret
          /\ op' = [NoOp EXCEPT !.name = "node_merge", !.self = 1, !.other = other]
    /\ pc' = "done"
    /\ UNCHANGED <<heap, pre, calls>>
    /\ UNCHANGED pathVars
    /\ UNCHANGED extraVars

LeafNext == NodeMerge

SpecLeaf == LeafInit /\ [][LeafNext]_vars

----------------------------------------------------------------------------
(* Rewriting one tree: node 1 is the root, nodes 2, 3 and 4 are below it;  *)
(* a node may be reached by two paths.                                     *)

TreeRootShapes ==
    {<<Entry("a", 2)>>, <<Entry("a", 2), Entry("b", 2)>>,
     <<Entry("a", 2), Entry("b", 3)>>, <<Entry("a", 3), Entry("b", 2)>>}
TreeInnerShapes ==
    {<< >>, <<Entry("a", 3)>>, <<Entry("a", 3), Entry("b", 3)>>,
     <<Entry("a", 3), Entry("b", 4)>>}

TreeHeaps ==
    {<<Dict(<< >>, << >>, << >>, rch), n2, Leaf(<< >>, << >>, << >>, v3),
       Leaf(<< >>, << >>, << >>, 1)>> :
        rch \in TreeRootShapes,
        n2 \in {Leaf(<< >>, << >>, << >>, 1)}
                 \cup {Dict(<< >>, << >>, << >>, ch) : ch \in TreeInnerShapes},
        v3 \in Values}

TreeInit == heap \in TreeHeaps /\ TreeStart

\* root.map_nodes(map_fn, cache_results=..., leafs_only=...)
MapNodes ==
    /\ pc = "ready"
    /\ \E tf \in MapFns, cache_results \in BOOLEAN, leafs_only \in BOOLEAN :
          /\ \E r \in {map_nodes(MapStart(heap), 1, tf, << >>, cache_results, leafs_only)} :
                /\ heap' = r.st.h
                /\ raised' = r.st.err
                /\ calls' = r.st.calls
                /\ events' = r.st.hooks
                /\ ret' = IF r.ret.isnode THEN r.ret.node ELSE None
          /\ op' = [NoOp EXCEPT !.name = "map_nodes", !.self = 1, !.tf = tf,
                                !.cache_results = cache_results, !.leafs_only = leafs_only]
    /\ pc' = "done"
    /\ UNCHANGED pre
    /\ UNCHANGED pathVars
    /\ UNCHANGED <<nodes_memo, ret_list, tl_value, tl_frames, steps, scan>>

\* root.filter_nodes(condition), the condition being true of the nodes in keep
FilterNodes ==
    /\ pc = "ready"
    /\ \E keep \in SUBSET {2, 3, 4} :
          /\ \E r \in {filter_nodes(heap, 1, KeepSet(keep), << >>)} :
                /\ heap' = r.h
                /\ raised' = r.err
                /\ ret' = r.ret
          /\ op' = [NoOp EXCEPT !.name = "filter_nodes", !.self = 1, !.keep = keep]
    /\ pc' = "done"
    /\ UNCHANGED <<pre, calls>>
    /\ UNCHANGED pathVars
    /\ UNCHANGED extraVars

TreeNext == MapNodes \/ FilterNodes

SpecTree == TreeInit /\ [][TreeNext]_vars

----------------------------------------------------------------------------
(* The path operations as steps: split_path on an arbitrary string, then   *)
(* join_path on what it yielded.                                           *)

PathStrings == SeqsUpTo(PathAlphabet, MaxPathLen)

PathInit ==
    /\ path_str \in PathStrings
    /\ path_pc = "start"
    /\ path_list = << >>
    /\ path_out = << >>
    /\ TreeIdle
    /\ ExtraIdle

SplitPath ==
    /\ path_pc = "start"
    /\ LET r == split_path(path_str)
       IN  /\ path_pc' = IF r.ok THEN "split" ELSE "invalid"
           /\ path_list' = r.components
    /\ UNCHANGED <<path_str, path_out>>
    /\ UNCHANGED treeVars
    /\ UNCHANGED extraVars

JoinPath ==
    /\ path_pc = "split"
    /\ path_out' = join_path(path_list)
    /\ path_pc' = "joined"
    /\ UNCHANGED <<path_str, path_list>>
    /\ UNCHANGED treeVars
    /\ UNCHANGED extraVars

PathNext == SplitPath \/ JoinPath

SpecPath == PathInit /\ [][PathNext]_vars

----------------------------------------------------------------------------
(* The grammar of paths, stated on its own: a path is a first component    *)
(* (a name or a bracketed integer) followed by components that are either  *)
(* a dot and a name or a bracketed integer.                                *)

IsName(t) == t # << >> /\ \A k \in 1..Len(t) : t[k] \in IdentChars

IsNumeral(t) == t # << >> /\ \A k \in 1..Len(t) : t[k] \in DigitChars

IsBracketed(t) ==
    /\ Len(t) >= 3
    /\ t[1] = "["
    /\ t[Len(t)] = "]"
    /\ LET inner == SubSeq(t, 2, Len(t) - 1)
       IN  IsNumeral(inner) \/ (inner[1] = "-" /\ IsNumeral(Tail(inner)))

RECURSIVE IsPathFrom(_, _, _)
IsPathFrom(s, i, first) ==
    IF i > Len(s) THEN ~first
    ELSE \E j \in i..Len(s) :
            /\ LET t == SubSeq(s, i, j)
               IN  \/ first /\ IsName(t)
                   \/ ~first /\ t[1] = "." /\ IsName(Tail(t))
                   \/ IsBracketed(t)
            /\ IsPathFrom(s, j + 1, FALSE)

IsPath(s) == IsPathFrom(s, 1, TRUE)

\* a bracketed integer is written canonically when it is the way str() prints it:
\* no leading zero before another digit, and no "-0"
CanonicalIndices(s) ==
    \A i \in 1..Len(s) :
        s[i] = "[" =>
            /\ ~(i + 2 <= Len(s) /\ s[i + 1] = "0" /\ s[i + 2] \in DigitChars)
            /\ ~(i + 2 <= Len(s) /\ s[i + 1] = "-" /\ s[i + 2] = "0")

\* C6 (as claimed): for every string split_path accepts, join_path(split_path(s)) = s,
\* also when a bracketed index is written with a sign or with leading zeros.
C6_RoundTripAll == path_pc = "joined" => path_out = path_str

\* C6 (amended): for every string split_path accepts in which every bracketed index is
\* written canonically (no leading zeros, no "-0"), join_path(split_path(s)) = s.
C6_RoundTripCanonical ==
    (path_pc = "joined" /\ CanonicalIndices(path_str)) => path_out = path_str

C6_Witness ==
    /\ path_pc = "joined"
    /\ path_str = <<"[", "-", "1", "]">>
    /\ path_list = <<[kind |-> "index", name |-> << >>, index |-> -1]>>
    /\ path_out = path_str

\* C7: split_path with validation raises for every non-empty string that is not a
\* gap-free concatenation of path components, and accepts every string that is one.
C7_RejectsExactlyNonPaths ==
    (path_pc \in {"split", "invalid", "joined"} /\ path_str # << >>)
        => ((path_pc = "invalid") <=> ~IsPath(path_str))

C7_Witness ==
    /\ path_pc = "invalid"
    /\ path_str = <<"a", ".", ".", "a">>

----------------------------------------------------------------------------
(* Properties of the tree operations *)

\* the paths of at most two names
TreePaths == SeqsUpTo(Names, 2) \ {<< >>}

\* what can be observed below a node: the kind and value of every node and, in
\* order, the names and identities of its children, at every depth
RECURSIVE Content(_, _)
Content(h, n) ==
    [node |-> n, kind |-> h[n].kind, value |-> h[n].value,
     children |-> [k \in 1..Len(h[n]._children) |->
                     <<h[n]._children[k].name, Content(h, h[n]._children[k].node)>>]]

MergeDone == pc = "done" /\ op.name = "merge"

\* C1 (as claimed): a merge (ComposedNode.merge or ConfigDict.merge) that raises leaves
\* the destination's children and values, at every depth, as they were before the call.
C1_MergeAtomic ==
    (pc = "done" /\ op.name \in {"merge", "dict_merge"} /\ raised # "")
        => Content(heap, 1) = Content(pre, 1)

\* C2 (as claimed): a node constructed with allow_new=False that is merged against an
\* absent destination (other is None) raises the allow-new error instead of being returned.
C2_AllowNewViolation ==
    (pc = "done" /\ op.name = "node_merge" /\ op.other = None /\ pre[1]._allow_new = <<FALSE>>)
        => raised = "ValueError"

\* C3 (as claimed): when destination and source both hold a leaf under a key, after the
\* merge the key holds the destination's leaf if the source leaf has strictly lower
\* priority, and the source's leaf if its priority is higher or equal.
C3_LeafPriority ==
    (MergeDone /\ raised = "") =>
        \A key \in Names :
            LET d == get_child(pre, 1, key)
                s == get_child(pre, 2, key)
            IN  (d # None /\ s # None /\ is_leaf(pre, d) /\ is_leaf(pre, s)) =>
                    get_child(heap, 1, key) = IF priority(pre, s) < priority(pre, d) THEN d ELSE s

\* C3 (amended): as above, except that a source leaf of higher or equal priority that is
\* empty (false) and has delete set removes the key instead of replacing the leaf, unless
\* the source composed node itself has delete set, in which case the key holds the source leaf.
C3_LeafPriorityOrRemoved ==
    (MergeDone /\ raised = "") =>
        \A key \in Names :
            LET d == get_child(pre, 1, key)
                s == get_child(pre, 2, key)
            IN  (d # None /\ s # None /\ is_leaf(pre, d) /\ is_leaf(pre, s)) =>
                    IF priority(pre, s) < priority(pre, d)
                    THEN get_child(heap, 1, key) = d
                    ELSE IF ~IsTrue(pre, s) /\ delete(pre, s) /\ ~delete(pre, 2)
                    THEN ~has_child(heap, 1, key)
                    ELSE get_child(heap, 1, key) = s

C3_Witness ==
    /\ MergeDone
    /\ raised = ""
    /\ get_child(pre, 1, "b") = 4
    /\ get_child(pre, 2, "b") = 6
    /\ priority(pre, 4) = STANDARD
    /\ priority(pre, 6) = STANDARD
    /\ get_child(heap, 1, "b") = 6

\* C4 (as claimed): the leaf-level merge of an incoming node against an existing
\* destination node of equal priority returns the incoming node.
C4_TieToIncoming ==
    (pc = "done" /\ op.name = "node_merge" /\ op.other # None
        /\ priority(pre, op.self) = priority(pre, op.other))
        => ret = op.self

\* C5 (as claimed): when the source composed node has delete set, after the merge a
\* destination node whose path does not exist in the source is still at its path if it has
\* strictly higher priority than the deepest source node along the path, and is gone otherwise.
C5_DeletePrunes ==
    (MergeDone /\ raised = "" /\ delete(pre, 2)) =>
        \A path \in TreePaths :
            LET n == get_node(pre, 1, path)
            IN  (n # None /\ get_node(pre, 2, path) = None) =>
                    IF has_priority_over(pre, n, get_first_not_missing_node(pre, 2, path), FALSE)
                    THEN get_node(heap, 1, path) = n
                    ELSE get_node(heap, 1, path) = None

MapDone == pc = "done" /\ op.name = "map_nodes"

\* C8 (as claimed): with result caching on, two paths that reference one node before
\* map_nodes reference one node after it, whatever the map_fn returns.
C8_SharingPreserved ==
    (MapDone /\ raised = "" /\ op.cache_results) =>
        \A p1 \in TreePaths, p2 \in TreePaths :
            (get_node(pre, 1, p1) # None /\ get_node(pre, 1, p1) = get_node(pre, 1, p2))
                => (get_node(heap, 1, p1) # None /\ get_node(heap, 1, p1) = get_node(heap, 1, p2))

\* C8 (amended): with result caching on and a map_fn that returns nodes (the no-op hooks,
\* or a function constructing a new node), two paths that reference one node before
\* map_nodes reference one node after it.
C8_SharingPreservedForNodes ==
    (MapDone /\ raised = "" /\ op.cache_results /\ op.tf \in {"on_premerge", "rebuild"}) =>
        \A p1 \in TreePaths, p2 \in TreePaths :
            (get_node(pre, 1, p1) # None /\ get_node(pre, 1, p1) = get_node(pre, 1, p2))
                => (get_node(heap, 1, p1) # None /\ get_node(heap, 1, p1) = get_node(heap, 1, p2))

C8_Witness ==
    /\ MapDone
    /\ raised = ""
    /\ op.cache_results
    /\ op.tf = "rebuild"
    /\ get_node(pre, 1, <<"b">>) = 3
    /\ get_node(pre, 1, <<"a", "a">>) = 3
    /\ get_node(heap, 1, <<"b">>) = get_node(heap, 1, <<"a", "a">>)
    /\ get_node(heap, 1, <<"b">>) \notin {None, 3}

\* the nodes below (and including) a node
RECURSIVE Reachable(_, _)
Reachable(h, n) ==
    {n} \cup UNION {Reachable(h, h[n]._children[k].node) : k \in 1..Len(h[n]._children)}

Count(seq, x) == Cardinality({k \in 1..Len(seq) : seq[k] = x})

\* C9: in one map_nodes pass with result caching on, the map_fn is called exactly once on
\* every leaf of the tree and, when leafs_only is false, exactly once on every composed node
\* including the root (never on a composed node when leafs_only is true), however many
\* paths reach the node.
C9_OncePerIdentity ==
    (MapDone /\ raised = "" /\ op.cache_results) =>
        /\ \A n \in Reachable(pre, 1) :
              Count(calls, n) = IF is_leaf(pre, n) \/ ~op.leafs_only THEN 1 ELSE 0
        /\ \A k \in 1..Len(calls) : calls[k] \in Reachable(pre, 1)

C9_Witness ==
    /\ MapDone
    /\ raised = ""
    /\ op.cache_results
    /\ ~op.leafs_only
    /\ get_node(pre, 1, <<"a">>) = 2
    /\ get_node(pre, 1, <<"b">>) = 2
    /\ get_node(pre, 1, <<"a", "a">>) = 3
    /\ get_node(pre, 1, <<"a", "b">>) = 3
    /\ calls = <<3, 2, 1>>

\* C10 (as claimed): filter_nodes keeps a child when the condition is true of it or, for a
\* composed child, when something is left below it after filtering, and removes it otherwise.
C10_FilterKeeps ==
    (pc = "done" /\ op.name = "filter_nodes" /\ raised = "") =>
        \A k \in 1..Len(pre[1]._children) :
            LET name  == pre[1]._children[k].name
                child == pre[1]._children[k].node
            IN  has_child(heap, 1, name) <=>
                    \/ child \in op.keep
                    \/ ~is_leaf(pre, child) /\ Len(heap[child]._children) > 0

----------------------------------------------------------------------------
(* Construction: ConfigNodeMeta.__call__ and ConfigNode.__init__.  A raw     *)
(* value is an object with an identity of its own (an index of RawStore);   *)
(* the raw values of the model are scalars, two of them equal.  A keyword   *)
(* argument is << >> when the call does not pass it and <<x>> when it       *)
(* passes x, x being an optional value itself.                              *)

RawStore ==
    <<[shape |-> "scalar", value |-> 1], [shape |-> "scalar", value |-> 1],
      [shape |-> "scalar", value |-> 0]>>

RawIds == 1..Len(RawStore)

\* a raw value handed to ConfigNode(...): the identity of the raw object
RawObj(r) == [isnode |-> FALSE, node |-> None, raw |-> r]

\* a priority __init__ does not know
InvalidPriority == 2

NoKwargs ==
    [priority |-> << >>, delete |-> << >>, allow_new |-> << >>,
     implicit_delete |-> << >>, implicit_allow_new |-> << >>]

KwargsOpts ==
    {NoKwargs}
        \cup {[NoKwargs EXCEPT !.priority = <<p>>] :
                p \in {<< >>, <<WEAK>>, <<FORCE>>, <<InvalidPriority>>}}
        \cup {[NoKwargs EXCEPT !.delete = <<(<<TRUE>>)>>],
              [NoKwargs EXCEPT !.allow_new = <<(<<FALSE>>)>>],
              [NoKwargs EXCEPT !.implicit_delete = <<(<<TRUE>>)>>],
              [NoKwargs EXCEPT !.implicit_allow_new = <<(<<FALSE>>)>>],
              [NoKwargs EXCEPT !.priority = <<(<<FORCE>>)>>, !.delete = <<(<<TRUE>>)>>,
                               !.allow_new = <<(<<FALSE>>)>>]}

\* the value of a keyword argument, None when the call does not pass it
Arg(a) == IF a = << >> THEN << >> ELSE a[1]

\* the loop over _kwargs_to_inherit applying also delete and allow_new
Inherit_Explicit(node, kwargs) ==
    [node EXCEPT
        !._priority = IF kwargs.priority # << >> THEN kwargs.priority[1] ELSE @,
        !._delete = IF kwargs.delete # << >> THEN kwargs.delete[1] ELSE @,
        !._allow_new = IF kwargs.allow_new # << >> THEN kwargs.allow_new[1] ELSE @,
        !._implicit_delete =
            IF kwargs.implicit_delete # << >> THEN kwargs.implicit_delete[1] ELSE @,
        !._implicit_allow_new =
            IF kwargs.implicit_allow_new # << >> THEN kwargs.implicit_allow_new[1] ELSE @]

\* for arg_name in _kwargs_to_inherit: if arg_name in kwargs: setattr(value, '_' + arg_name, ...)
Inherit(node, kwargs) ==
    [node EXCEPT
        !._priority = IF kwargs.priority # << >> THEN kwargs.priority[1] ELSE @,
        !._implicit_delete =
            IF kwargs.implicit_delete # << >> THEN kwargs.implicit_delete[1] ELSE @,
        !._implicit_allow_new =
            IF kwargs.implicit_allow_new # << >> THEN kwargs.implicit_allow_new[1] ELSE @]

\* the type deduced for a raw value
Deduce(r) == IF RawStore[r].shape = "mapping" THEN "ConfigDict" ELSE "ConfigScalar"

\* ConfigNode.__init__ reached through the constructor of the class t: [err, obj].
\* A ConfigDict takes `value or {}` as its children and reads their items().
ConfigNode__init__(t, r, kwargs) ==
    IF Arg(kwargs.priority) \notin {<< >>, <<STANDARD>>, <<WEAK>>, <<FORCE>>}
    THEN [err |-> "ValueError", obj |-> Leaf(<< >>, << >>, << >>, 0)]
    ELSE IF t = "ConfigDict" /\ RawStore[r].shape = "scalar" /\ ScalarIsTrue(RawStore[r].value)
    THEN [err |-> "AttributeError", obj |-> Leaf(<< >>, << >>, << >>, 0)]
    ELSE LET base == IF t = "ConfigDict"
                     THEN Dict(Arg(kwargs.priority), Arg(kwargs.delete),
                               Arg(kwargs.allow_new), << >>)
                     ELSE Leaf(Arg(kwargs.priority), Arg(kwargs.delete),
                               Arg(kwargs.allow_new), RawStore[r].value)
         IN  [err |-> "",
              obj |-> [base EXCEPT !._implicit_delete = Arg(kwargs.implicit_delete),
                                   !._implicit_allow_new = Arg(kwargs.implicit_allow_new)]]

\* the memo test without the lookup
MemoHit_Never(use_memo, memo, r) == FALSE

\* has_value and nodes_memo is not None and id(value) in nodes_memo
MemoHit(use_memo, memo, r) == use_memo /\ r \in DOMAIN memo

\* cls(value, nodes_memo=..., **kwargs): [h, memo, err, node]; use_memo is FALSE when
\* nodes_memo is None
ConfigNodeMeta__call__(h, memo, use_memo, cls, value, kwargs) ==
    IF cls = "ConfigNode" /\ value.isnode
    THEN [h |-> [h EXCEPT ![value.node] = Inherit(@, kwargs)], memo |-> memo,
          err |-> "", node |-> value.node]
    ELSE LET t == IF cls = "ConfigNode" THEN Deduce(value.raw) ELSE cls
         IN  IF MemoHit(use_memo, memo, value.raw)
             THEN [h |-> h, memo |-> memo, err |-> "", node |-> memo[value.raw]]
             ELSE LET c == ConfigNode__init__(t, value.raw, kwargs)
                  IN  IF c.err # ""
                      THEN [h |-> h, memo |-> memo, err |-> c.err, node |-> None]
                      ELSE [h |-> Append(h, c.obj),
                            memo |-> IF use_memo
                                     THEN (persistent_id(value.raw) :> (Len(h) + 1)) @@ memo
                                     ELSE memo,
                            err |-> "", node |-> Len(h) + 1]

----------------------------------------------------------------------------
(* A build: a sequence of constructor calls, with or without the build's    *)
(* memo table, on raw values and on the nodes constructed so far.           *)

MaxBuilds == 2

Classes == {"ConfigNode", "ConfigScalar", "ConfigDict"}

BuildInit == heap = << >> /\ TreeStart

\* cls(value, nodes_memo=nodes_memo or None, **kwargs)
Construct ==
    /\ pc = "ready"
    /\ steps < MaxBuilds
    /\ \E cls \in Classes, kwargs \in KwargsOpts, use_memo \in BOOLEAN,
          value \in {RawObj(r) : r \in RawIds} \cup {NodeVal(n) : n \in 1..Len(heap)} :
          /\ value.isnode => cls = "ConfigNode"
          /\ \E r \in {ConfigNodeMeta__call__(heap, nodes_memo, use_memo, cls, value, kwargs)} :
                /\ heap' = r.h
                /\ nodes_memo' = r.memo
                /\ raised' = r.err
                /\ ret' = r.node
          /\ op' = [name |-> "construct", cls |-> cls, value |-> value, kwargs |-> kwargs,
                    use_memo |-> use_memo, memo |-> nodes_memo]
    /\ pre' = heap
    /\ steps' = steps + 1
    /\ UNCHANGED <<pc, calls, ret_list, events, tl_value, tl_frames, scan>>
    /\ UNCHANGED pathVars

BuildNext == Construct

SpecBuild == BuildInit /\ [][BuildNext]_vars

Reconstructed == op.name = "construct" /\ op.cls = "ConfigNode" /\ op.value.isnode

\* C11 (as claimed): ConfigNode(n, flags...) on a constructed node n returns n itself and
\* applies every flag passed (priority, delete, allow_new) onto n, so that n's priority,
\* delete and allow_new afterwards equal the passed values.
C11_FlagsApplied ==
    (Reconstructed /\ raised = "") =>
        LET n == op.value.node
            k == op.kwargs
        IN  /\ ret = n
            /\ k.priority # << >> => heap[n]._priority = k.priority[1]
            /\ k.delete # << >> => delete(heap, n) = k.delete[1][1]
            /\ k.allow_new # << >> => allow_new(heap, n) = k.allow_new[1][1]

\* C11 (amended): ConfigNode(n, flags...) on a constructed node n returns n itself, makes
\* no new node, and sets onto n exactly the passed ones of priority, implicit_delete and
\* implicit_allow_new; n's explicit delete and allow_new, its value and its children, and
\* every other node stay as they were, also when delete or allow_new is passed.
C11_InheritedFlagsApplied ==
    (Reconstructed /\ raised = "") =>
        LET n == op.value.node
            k == op.kwargs
        IN  /\ ret = n
            /\ Len(heap) = Len(pre)
            /\ heap[n]._priority = IF k.priority # << >> THEN k.priority[1] ELSE pre[n]._priority
            /\ heap[n]._implicit_delete =
                  IF k.implicit_delete # << >> THEN k.implicit_delete[1]
                  ELSE pre[n]._implicit_delete
            /\ heap[n]._implicit_allow_new =
                  IF k.implicit_allow_new # << >> THEN k.implicit_allow_new[1]
                  ELSE pre[n]._implicit_allow_new
            /\ heap[n]._delete = pre[n]._delete
            /\ heap[n]._allow_new = pre[n]._allow_new
            /\ heap[n].kind = pre[n].kind
            /\ heap[n].value = pre[n].value
            /\ heap[n]._children = pre[n]._children
            /\ \A m \in 1..Len(pre) : m # n => heap[m] = pre[m]

C11_Witness ==
    /\ Reconstructed
    /\ raised = ""
    /\ op.kwargs.priority = <<(<<FORCE>>)>>
    /\ op.kwargs.delete = <<(<<TRUE>>)>>
    /\ pre[op.value.node]._priority = << >>
    /\ pre[op.value.node]._delete = << >>
    /\ ret = op.value.node
    /\ heap[ret]._priority = <<FORCE>>
    /\ heap[ret]._delete = << >>

\* C12: within one memo table, constructing from a raw value whose identity is in the table
\* returns the node the table holds, whatever kind is requested, and changes neither the
\* table nor any node; constructing from a raw value not in the table adds exactly one
\* entry, for that raw value and a new node (none when the constructor raises); the table
\* never maps two raw objects, equal-valued or not, to one node.
C12_MemoizedConstruction ==
    /\ \A r1 \in DOMAIN nodes_memo, r2 \in DOMAIN nodes_memo :
          r1 # r2 => nodes_memo[r1] # nodes_memo[r2]
    /\ (op.name = "construct" /\ ~op.value.isnode /\ op.use_memo) =>
          LET r  == op.value.raw
              m0 == op.memo
          IN  IF r \in DOMAIN m0
              THEN raised = "" /\ ret = m0[r] /\ nodes_memo = m0 /\ heap = pre
              ELSE IF raised = ""
              THEN /\ DOMAIN nodes_memo = DOMAIN m0 \cup {r}
                   /\ nodes_memo[r] = ret
                   /\ ret = Len(pre) + 1
                   /\ Len(heap) = Len(pre) + 1
                   /\ \A q \in DOMAIN m0 : nodes_memo[q] = m0[q]
              ELSE nodes_memo = m0 /\ heap = pre

C12_Witness ==
    /\ op.name = "construct"
    /\ op.use_memo
    /\ op.cls = "ConfigDict"
    /\ op.value = RawObj(1)
    /\ op.kwargs.priority = <<(<<FORCE>>)>>
    /\ 1 \in DOMAIN op.memo
    /\ ret = op.memo[1]
    /\ is_leaf(heap, ret)
    /\ heap[ret]._priority = << >>
    /\ nodes_memo = op.memo

\* C17 (as claimed): after any sequence of constructor calls, also calls that pass flags
\* onto a constructed node, every node's effective priority is one of WEAK, STANDARD and
\* FORCE, an unset priority being STANDARD.
C17_PriorityInvariant ==
    \A n \in 1..Len(heap) :
        /\ priority(heap, n) \in {WEAK, STANDARD, FORCE}
        /\ heap[n]._priority = << >> => priority(heap, n) = STANDARD

----------------------------------------------------------------------------
(* Looking up, renaming and evaluating in one tree (the trees of TreeInit). *)

\* get_node treating incomplete=None like incomplete=False
get_node_mode_RaiseOnNone(h, self, path, intermediate, incomplete) ==
    LET chain == get_node_chain(h, self, path)
        found == chain[Len(chain)] # None
    IN  IF ~found /\ incomplete # <<TRUE>>
        THEN [err |-> "KeyError", node |-> None, list |-> << >>]
        ELSE IF intermediate THEN [err |-> "", node |-> None, list |-> chain]
        ELSE [err |-> "", node |-> chain[Len(chain)], list |-> << >>]

\* get_node(path, intermediate=..., incomplete=...): [err, node, list]; incomplete is
\* << >> for None; list is the returned list, << >> when a node or None is returned
get_node_mode(h, self, path, intermediate, incomplete) ==
    LET chain == get_node_chain(h, self, path)
        found == chain[Len(chain)] # None
    IN  IF ~found /\ incomplete # <<TRUE>>
        THEN IF incomplete = << >> THEN [err |-> "", node |-> None, list |-> << >>]
             ELSE [err |-> "KeyError", node |-> None, list |-> << >>]
        ELSE IF intermediate THEN [err |-> "", node |-> None, list |-> chain]
        ELSE [err |-> "", node |-> chain[Len(chain)], list |-> << >>]

\* rename_child without the test of the new name
rename_child_NoConflictCheck(h, self, old_name, new_name) ==
    IF ~has_child(h, self, old_name)
    THEN [h |-> h, err |-> "ValueError: does not have a child", node |-> None]
    ELSE LET child == get_child(h, self, old_name)
         IN  [h |-> [h EXCEPT ![self]._children = Store(Drop(@, old_name), new_name, child)],
              err |-> "", node |-> child]

\* ComposedNode.rename_child(old_name, new_name): [h, err, node]
rename_child(h, self, old_name, new_name) ==
    IF ~has_child(h, self, old_name)
    THEN [h |-> h, err |-> "ValueError: does not have a child", node |-> None]
    ELSE IF has_child(h, self, new_name)
    THEN [h |-> h, err |-> "ValueError: already assigned", node |-> None]
    ELSE LET child == get_child(h, self, old_name)
         IN  [h |-> [h EXCEPT ![self]._children = Store(Drop(@, old_name), new_name, child)],
              err |-> "", node |-> child]

\* ConfigNode.evaluate_node(path, root): [err, v]
evaluate_node(h, path, node) ==
    LET evaluated == map_fn("on_evaluate", h, path, node).v
    IN  IF evaluated.isnode /\ evaluated.node = node
        THEN [err |-> "AssertionError", v |-> NodeVal(None)]
        ELSE IF evaluated.isnode
        THEN [err |-> "AssertionError", v |-> NodeVal(None)]
        ELSE [err |-> "", v |-> evaluated]

LookupPaths == SeqsUpTo(Names, 3)

IncompleteOpts == {<< >>, <<FALSE>>, <<TRUE>>}

\* root.get_node(path, intermediate=..., incomplete=...)
GetNode ==
    /\ pc = "ready"
    /\ \E path \in LookupPaths, intermediate \in BOOLEAN, incomplete \in IncompleteOpts :
          /\ LET r == get_node_mode(heap, 1, path, intermediate, incomplete)
             IN  /\ raised' = r.err
                 /\ ret' = r.node
                 /\ ret_list' = r.list
          /\ op' = [name |-> "get_node", self |-> 1, path |-> path,
                    intermediate |-> intermediate, incomplete |-> incomplete]
    /\ pc' = "done"
    /\ UNCHANGED <<heap, pre, calls, nodes_memo, events, tl_value, tl_frames, steps, scan>>
    /\ UNCHANGED pathVars

\* node.rename_child(old_name, new_name) on a composed node of the tree
RenameChild ==
    /\ pc = "ready"
    /\ \E self \in {n \in Reachable(heap, 1) : ~is_leaf(heap, n)},
          old_name \in Names, new_name \in Names :
          /\ LET r == rename_child(heap, self, old_name, new_name)
             IN  /\ heap' = r.h
                 /\ raised' = r.err
                 /\ ret' = r.node
          /\ op' = [name |-> "rename_child", self |-> self, old_name |-> old_name,
                    new_name |-> new_name]
    /\ pc' = "done"
    /\ UNCHANGED <<pre, calls>>
    /\ UNCHANGED pathVars
    /\ UNCHANGED extraVars

\* node.evaluate_node(path, root) on a node of the tree
EvaluateNode ==
    /\ pc = "ready"
    /\ \E node \in Reachable(heap, 1) :
          /\ LET r == evaluate_node(heap, << >>, node)
             IN  /\ raised' = r.err
                 /\ ret' = IF r.v.isnode THEN r.v.node ELSE None
          /\ op' = [name |-> "evaluate_node", self |-> node]
    /\ pc' = "done"
    /\ UNCHANGED <<heap, pre, calls>>
    /\ UNCHANGED pathVars
    /\ UNCHANGED extraVars

\* root.evaluate() of ComposedNode
Evaluate ==
    /\ pc = "ready"
    /\ \E r \in {map_nodes(MapStart(heap), 1, "on_evaluate", << >>, TRUE, FALSE)} :
          /\ heap' = r.st.h
          /\ raised' = r.st.err
          /\ calls' = r.st.calls
          /\ ret' = IF r.ret.isnode THEN r.ret.node ELSE None
    /\ op' = [name |-> "evaluate", self |-> 1]
    /\ pc' = "done"
    /\ UNCHANGED pre
    /\ UNCHANGED pathVars
    /\ UNCHANGED extraVars

AccessNext == GetNode \/ RenameChild \/ EvaluateNode \/ Evaluate

SpecAccess == TreeInit /\ [][AccessNext]_vars

\* the node a path leads to from n, None when a component of it is missing
RECURSIVE NodeAt(_, _, _)
NodeAt(h, n, path) ==
    IF path = << >> THEN n
    ELSE IF n = None \/ is_leaf(h, n) \/ ~has_child(h, n, path[1]) THEN None
    ELSE NodeAt(h, get_child(h, n, path[1]), Tail(path))

\* the number of leading components of the path that exist
Depth(h, n, path) ==
    CHOOSE k \in 0..Len(path) :
        /\ NodeAt(h, n, SubSeq(path, 1, k)) # None
        /\ k < Len(path) => NodeAt(h, n, SubSeq(path, 1, k + 1)) = None

\* C13: get_node(path) on a missing component raises KeyError when incomplete=False,
\* returns None when incomplete=None, and with incomplete=True and intermediate=True
\* returns the nodes visited, self first, followed by one None; when the whole path exists,
\* every mode returns the node at the path or, with intermediate=True, the list of the
\* nodes visited, self first, without a None.
C13_GetNodeModes ==
    (pc = "done" /\ op.name = "get_node") =>
        LET d == Depth(heap, op.self, op.path)
            visited == [j \in 1..(d + 1) |-> NodeAt(heap, op.self, SubSeq(op.path, 1, j - 1))]
        IN  IF d = Len(op.path)
            THEN /\ raised = ""
                 /\ IF op.intermediate THEN ret_list = visited
                    ELSE ret = NodeAt(heap, op.self, op.path) /\ ret_list = << >>
            ELSE /\ op.incomplete = <<FALSE>> => raised = "KeyError"
                 /\ op.incomplete = << >> => (raised = "" /\ ret = None /\ ret_list = << >>)
                 /\ (op.incomplete = <<TRUE>> /\ op.intermediate) =>
                        (raised = "" /\ ret_list = Append(visited, None))

C13_Witness ==
    /\ pc = "done"
    /\ op.name = "get_node"
    /\ op.path = <<"a", "a", "b">>
    /\ op.incomplete = <<TRUE>>
    /\ op.intermediate
    /\ ret_list = <<1, 2, 3, None>>

RenameDone == pc = "done" /\ op.name = "rename_child"

\* C14: rename_child(old, new) raises the does-not-have-a-child error when old is absent
\* and the already-assigned error when old is present and new is occupied (also when new is
\* old), the children mapping being unchanged in both cases; otherwise it returns the node
\* old mapped to, new maps to that very node, old is absent, and every other child (and
\* every other node) is as before.
C14_RenameChild ==
    RenameDone =>
        LET self == op.self
            had(name) == has_child(pre, self, name)
        IN  IF ~had(op.old_name)
            THEN raised = "ValueError: does not have a child" /\ heap = pre
            ELSE IF had(op.new_name)
            THEN raised = "ValueError: already assigned" /\ heap = pre
            ELSE /\ raised = ""
                 /\ ret = get_child(pre, self, op.old_name)
                 /\ get_child(heap, self, op.new_name) = ret
                 /\ ~has_child(heap, self, op.old_name)
                 /\ \A name \in Names \ {op.old_name, op.new_name} :
                       get_child(heap, self, name) = get_child(pre, self, name)
                 /\ Len(heap[self]._children) = Len(pre[self]._children)
                 /\ \A n \in 1..Len(pre) : n # self => heap[n] = pre[n]

C14_Witness ==
    /\ RenameDone
    /\ raised = ""
    /\ op.self = 1
    /\ op.old_name = "a"
    /\ op.new_name = "keys"
    /\ get_child(pre, 1, "a") = 2
    /\ get_child(pre, 1, "b") = 3
    /\ heap[1]._children = <<Entry("b", 3), Entry("keys", 2)>>

\* C16 (as claimed): evaluate_node of any node of the tree, composed nodes with the default
\* on_evaluate included, raises no assertion error and yields a native value, and
\* evaluate() of the tree does not return a node.
C16_EvaluatesToNative ==
    /\ (pc = "done" /\ op.name = "evaluate_node") => (raised = "" /\ ret = None)
    /\ (pc = "done" /\ op.name = "evaluate" /\ raised = "") => ret = None

----------------------------------------------------------------------------
(* What one merge does, in order: the invocations of the on_premerge hook   *)
(* and the mutations (set_child, remove_child, filter_nodes removing) of the *)
(* destination.  The operators follow merge step by step and take the heaps *)
(* from it.                                                                 *)

HookEvents(nodes) == [k \in 1..Len(nodes) |-> [type |-> "on_premerge", node |-> nodes[k]]]

Mutation(self) == [type |-> "mutation", node |-> self]

RECURSIVE merge_events(_, _, _)
RECURSIVE MergeLoopEvents(_, _, _, _)
MergeLoopEvents(h, self, other, k) ==
    IF k > Len(h[other]._children) THEN << >>
    ELSE LET key   == h[other]._children[k].name
             value == h[other]._children[k].node
             child == get_child(h, self, key)
         IN  IF child = None
             THEN Let1(set_child(h, self, key, NodeVal(value)),
                       LAMBDA r : IF r.err # "" THEN << >>
                                  ELSE <<Mutation(self)>>
                                           \o MergeLoopEvents(r.h, self, other, k + 1))
             ELSE Let1(IF is_leaf(h, child) THEN [h |-> h, err |-> "leaf", ret |-> None]
                       ELSE merge(h, child, value),
                       LAMBDA m :
                         (IF is_leaf(h, child) THEN << >> ELSE merge_events(h, child, value))
                           \o (IF m.err \notin {"", "leaf", "TypeError", "AttributeError"}
                               THEN << >>
                               ELSE Let1(AfterChildMerge(m, self, key, value, child),
                                         LAMBDA r :
                                           (IF r.h # m.h THEN <<Mutation(self)>> ELSE << >>)
                                             \o (IF r.err # "" THEN << >>
                                                 ELSE MergeLoopEvents(r.h, self, other, k + 1)))))

merge_events(h, self, other) ==
    IF is_leaf(h, other) THEN HookEvents(<<other>>)
    ELSE Let1(map_nodes(MapStart(h), other, "on_premerge", << >>, TRUE, FALSE),
              LAMBDA p :
                HookEvents(p.st.calls)
                  \o (IF p.st.err # "" THEN << >>
                      ELSE Let1(IF delete(p.st.h, other)
                                THEN filter_nodes(p.st.h, self, MaybeKeep(other), << >>)
                                ELSE [h |-> p.st.h, err |-> "", ret |-> self],
                                LAMBDA f :
                                  (IF f.h # p.st.h THEN <<Mutation(self)>> ELSE << >>)
                                    \o (IF f.err # "" THEN << >>
                                        ELSE MergeLoopEvents(f.h, self, other, 1)))))

----------------------------------------------------------------------------
(* Folding two layers into one destination, left to right.  Node 1 is the   *)
(* destination root, node 2 the root of the first layer, node 3 the root of *)
(* the second; nodes 4 and 5 belong to the destination, 6 to 8 to the first *)
(* layer, 9 to 11 to the second.                                            *)

\* the roots of the layers, in the order they are merged
LayerRoots == <<2, 3>>

PlainLeaf(v) == Leaf(<< >>, << >>, << >>, v)
PlainDict(ch) == Dict(<< >>, << >>, << >>, ch)

FoldDestShapes == {<< >>, <<Entry("a", 4), Entry("b", 5)>>}
FoldFirstShapes == {<<Entry("a", 6)>>, <<Entry("a", 6), Entry("b", 7)>>}
FoldSecondShapes == {<<Entry("a", 9)>>, <<Entry("a", 9), Entry("b", 10)>>}

FoldInit ==
    /\ \E dch \in FoldDestShapes, ch1 \in FoldFirstShapes, ch2 \in FoldSecondShapes,
          d1 \in DeleteOpts, d2 \in DeleteOpts,
          n5 \in {PlainLeaf(1), PlainDict(<< >>)},
          n6 \in {PlainLeaf(1), PlainDict(<< >>), PlainDict(<<Entry("b", 8)>>)},
          n7 \in {PlainLeaf(1), PlainDict(<<Entry("b", 8)>>)},
          n9 \in {PlainLeaf(1), PlainDict(<<Entry("a", 11)>>)},
          n10 \in {PlainLeaf(1), PlainDict(<<Entry("a", 11)>>)} :
            heap = <<PlainDict(dch), Dict(<< >>, d1, << >>, ch1), Dict(<< >>, d2, << >>, ch2),
                     PlainLeaf(1), n5, n6, n7, PlainLeaf(1), n9, n10, PlainLeaf(1)>>
    /\ TreeStart

\* destination.merge(layer) for the next layer
MergeLayer ==
    /\ pc = "ready"
    /\ steps < Len(LayerRoots)
    /\ \E r \in {merge(heap, 1, LayerRoots[steps + 1])} :
          /\ heap' = r.h
          /\ raised' = r.err
          /\ ret' = r.ret
          /\ pc' = IF r.err = "" THEN "ready" ELSE "done"
    /\ events' = merge_events(heap, 1, LayerRoots[steps + 1])
    /\ op' = [NoOp EXCEPT !.name = "merge", !.self = 1, !.other = LayerRoots[steps + 1]]
    /\ steps' = steps + 1
    /\ UNCHANGED <<pre, calls, nodes_memo, ret_list, tl_value, tl_frames, scan>>
    /\ UNCHANGED pathVars

FoldNext == MergeLayer

SpecFold == FoldInit /\ [][FoldNext]_vars

\* C15 (as claimed): during one merge the on_premerge hook of each node of the source tree
\* is invoked exactly once, and no invocation comes after a mutation of the destination
\* tree, also for source nodes inside composed children that are merged recursively.
C15_PremergeFirst ==
    (op.name = "merge" /\ raised = "") =>
        /\ \A n \in Reachable(pre, op.other) :
              Count(events, [type |-> "on_premerge", node |-> n]) = 1
        /\ \A i \in 1..Len(events), j \in 1..Len(events) :
              (i < j /\ events[i].type = "mutation") => events[j].type # "on_premerge"

\* C19 (as claimed): after a layer has been merged into the destination, and after later
\* layers have been merged into the same destination, the layer's tree (kinds, values and
\* children at every depth) is what it was before the fold.
C19_SourceReadOnly ==
    \A k \in 1..steps : Content(heap, LayerRoots[k]) = Content(pre, LayerRoots[k])

----------------------------------------------------------------------------
(* Sequences of set_child, remove_child, rename_child and merge on the      *)
(* composed nodes of a small heap: node 1 is a tree of its own, nodes 2 and *)
(* 3 are below it, node 4 is another tree.                                  *)

MaxOps == 2

ChildrenOf(h, n) == {h[n]._children[k].node : k \in 1..Len(h[n]._children)}

\* the nodes reached from the nodes of S in at most k steps
RECURSIVE Below(_, _, _)
Below(h, S, k) ==
    IF k = 0 THEN S
    ELSE Below(h, S \cup UNION {ChildrenOf(h, n) : n \in S}, k - 1)

Acyclic(h) == \A n \in 1..Len(h) : n \notin Below(h, ChildrenOf(h, n), Len(h))

Composed(h) == {n \in 1..Len(h) : ~is_leaf(h, n)}

OpNames == {"a", "b"}

OpsInit ==
    /\ \E ch2 \in {<< >>, <<Entry("b", 3)>>}, ch4 \in {<< >>, <<Entry("a", 3)>>} :
          heap = <<PlainDict(<<Entry("a", 2)>>), PlainDict(ch2), PlainLeaf(1), PlainDict(ch4)>>
    /\ TreeStart

\* self.set_child(name, value), the value being a node of the heap
SetChildOp ==
    /\ steps < MaxOps
    /\ \E self \in Composed(heap), name \in OpNames, value \in 1..Len(heap) :
          /\ \E r \in {set_child(heap, self, name, NodeVal(value))} :
                /\ heap' = r.h
                /\ raised' = r.err
                /\ ret' = r.node
          /\ op' = [name |-> "set_child", self |-> self, child |-> name, value |-> value]
    /\ steps' = steps + 1
    /\ UNCHANGED <<pc, pre, calls, nodes_memo, ret_list, events, tl_value, tl_frames, scan>>
    /\ UNCHANGED pathVars

\* self.remove_child(name)
RemoveChildOp ==
    /\ steps < MaxOps
    /\ \E self \in Composed(heap), name \in OpNames :
          /\ \E r \in {remove_child(heap, self, name)} :
                /\ heap' = r.h
                /\ raised' = r.err
          /\ op' = [name |-> "remove_child", self |-> self, child |-> name]
    /\ ret' = None
    /\ steps' = steps + 1
    /\ UNCHANGED <<pc, pre, calls, nodes_memo, ret_list, events, tl_value, tl_frames, scan>>
    /\ UNCHANGED pathVars

\* self.rename_child(old_name, new_name)
RenameChildOp ==
    /\ steps < MaxOps
    /\ \E self \in Composed(heap), old_name \in OpNames, new_name \in OpNames :
          /\ \E r \in {rename_child(heap, self, old_name, new_name)} :
                /\ heap' = r.h
                /\ raised' = r.err
                /\ ret' = r.node
          /\ op' = [name |-> "rename_child", self |-> self, old_name |-> old_name,
                    new_name |-> new_name]
    /\ steps' = steps + 1
    /\ UNCHANGED <<pc, pre, calls, nodes_memo, ret_list, events, tl_value, tl_frames, scan>>
    /\ UNCHANGED pathVars

\* self.merge(other) of two trees that share no composed node (a merge of trees that do
\* iterates a mapping while it changes it) and have no cycle (a merge of a cyclic tree
\* does not return)
MergeOp ==
    /\ steps < MaxOps
    /\ Acyclic(heap)
    /\ \E self \in Composed(heap), other \in Composed(heap) :
          /\ Below(heap, {self}, Len(heap)) \cap Below(heap, {other}, Len(heap))
                \cap Composed(heap) = {}
          /\ \E r \in {merge(heap, self, other)} :
                /\ heap' = r.h
                /\ raised' = r.err
                /\ ret' = r.ret
          /\ op' = [name |-> "merge", self |-> self, other |-> other]
    /\ steps' = steps + 1
    /\ UNCHANGED <<pc, pre, calls, nodes_memo, ret_list, events, tl_value, tl_frames, scan>>
    /\ UNCHANGED pathVars

OpsNext == SetChildOp \/ RemoveChildOp \/ RenameChildOp \/ MergeOp

SpecOps == OpsInit /\ [][OpsNext]_vars

\* C20 (as claimed): after any sequence of set_child, rename_child, remove_child and merge
\* operations no node is its own transitive child.
C20_Acyclic == Acyclic(heap)

----------------------------------------------------------------------------
(* ConfigNode.default_filename: a context manager over the thread-local     *)
(* ConfigNode._default_filename.  tl_value[s] is the attribute `value` of   *)
(* storage s: << >> while the attribute is missing, <<v>> once it is set,   *)
(* v being << >> for None and <<f>> for the file name f.  tl_frames[t] is   *)
(* the stack of the default_filename calls thread t is in; only the top one *)
(* can be before its yield.                                                 *)

MaxDepth == 2

Threads == {1, 2}
Filenames == {"a.yaml", "b.yaml"}
SourceFileOpts == {<< >>, <<"c.yaml">>}

\* the storage an access of ConfigNode._default_filename by thread t reaches
threading_local_Shared(t) == 1
threading_local(t) == t

\* getattr(ConfigNode._default_filename, 'value', None)
getattr_value(tl, t) ==
    IF tl[threading_local(t)] = << >> THEN << >> ELSE tl[threading_local(t)][1]

Top(t) == tl_frames[t][Len(tl_frames[t])]
SetTop(t, frame) == [tl_frames EXCEPT ![t] = [@ EXCEPT ![Len(@)] = frame]]
\* thread t is running code of its own: outside every scope, or in the body of one
Running(t) == IF tl_frames[t] = << >> THEN TRUE ELSE Top(t).at = "body"

ThreadsInit ==
    /\ tl_value = [s \in Threads |-> << >>]
    /\ tl_frames = [t \in Threads |-> << >>]
    /\ nodes_memo = << >>
    /\ ret_list = << >>
    /\ events = << >>
    /\ steps = 0
    /\ scan = << >>
    /\ TreeIdle
    /\ PathIdle

\* with ConfigNode.default_filename(filename): the call, up to the hasattr check
Enter ==
    /\ \E t \in Threads, filename \in Filenames :
          /\ Running(t)
          /\ Len(tl_frames[t]) < MaxDepth
          /\ tl_frames' = [tl_frames EXCEPT ![t] =
                 Append(@, [filename |-> filename, old |-> << >>, at |-> "old"])]
          /\ tl_value' = IF tl_value[threading_local(t)] = << >>
                         THEN [tl_value EXCEPT ![threading_local(t)] = <<(<< >>)>>]
                         ELSE tl_value
          /\ op' = [name |-> "enter", thread |-> t, filename |-> filename]
    /\ UNCHANGED <<heap, pc, pre, ret, raised, calls, nodes_memo, ret_list, events, steps, scan>>
    /\ UNCHANGED pathVars

\* old = ConfigNode._default_filename.value
ReadOld ==
    /\ \E t \in Threads :
          /\ tl_frames[t] # << >>
          /\ Top(t).at = "old"
          /\ tl_frames' = SetTop(t, [Top(t) EXCEPT !.old = tl_value[threading_local(t)][1],
                                                   !.at = "set"])
          /\ op' = [name |-> "old", thread |-> t]
    /\ UNCHANGED <<heap, pc, pre, ret, raised, calls, nodes_memo, ret_list, events, steps, scan,
                   tl_value>>
    /\ UNCHANGED pathVars

\* ConfigNode._default_filename.value = filename, then the yield
SetValue ==
    /\ \E t \in Threads :
          /\ tl_frames[t] # << >>
          /\ Top(t).at = "set"
          /\ tl_value' = [tl_value EXCEPT ![threading_local(t)] = <<(<<Top(t).filename>>)>>]
          /\ tl_frames' = SetTop(t, [Top(t) EXCEPT !.at = "body"])
          /\ op' = [name |-> "set", thread |-> t]
    /\ UNCHANGED <<heap, pc, pre, ret, raised, calls, nodes_memo, ret_list, events, steps, scan>>
    /\ UNCHANGED pathVars

\* the body ends, by reaching its end or by an exception: the finally clause
Exit ==
    /\ \E t \in Threads, how \in {"return", "raise"} :
          /\ tl_frames[t] # << >>
          /\ Top(t).at = "body"
          /\ tl_value' = [tl_value EXCEPT ![threading_local(t)] = <<Top(t).old>>]
          /\ tl_frames' = [tl_frames EXCEPT ![t] = SubSeq(@, 1, Len(@) - 1)]
          /\ op' = [name |-> "exit", thread |-> t, how |-> how]
    /\ UNCHANGED <<heap, pc, pre, ret, raised, calls, nodes_memo, ret_list, events, steps, scan>>
    /\ UNCHANGED pathVars

\* ConfigNode.__init__(source_file=source_file) in thread t: op.source_file is the
\* _source_file of the new node
NewNode ==
    /\ \E t \in Threads, source_file \in SourceFileOpts :
          /\ Running(t)
          /\ op' = [name |-> "__init__", thread |-> t, passed |-> source_file,
                    source_file |-> IF source_file # << >> THEN source_file
                                    ELSE getattr_value(tl_value, t)]
    /\ UNCHANGED <<heap, pc, pre, ret, raised, calls, nodes_memo, ret_list, events, steps, scan,
                   tl_value, tl_frames, scan>>
    /\ UNCHANGED pathVars

ThreadsNext == Enter \/ ReadOld \/ SetValue \/ Exit \/ NewNode

SpecThreads == ThreadsInit /\ [][ThreadsNext]_vars

\* the file name of the innermost scope whose body thread t has reached, None outside
\* every scope
ScopeOf(t) ==
    LET inside == {i \in 1..Len(tl_frames[t]) : tl_frames[t][i].at = "body"}
    IN  IF inside = {} THEN << >>
        ELSE <<tl_frames[t][CHOOSE i \in inside : \A j \in inside : j <= i].filename>>

\* C18: under every interleaving, the default a thread observes is the file name of the
\* innermost scope it is inside, and None outside every scope: it is f inside
\* default_filename(f), it is the value on entry again once the scope is left (by return
\* or by exception, nested scopes in stack order), scopes of other threads never change
\* it, and a node constructed without a source_file takes it.
C18_ScopedDefault ==
    /\ \A t \in Threads : getattr_value(tl_value, t) = ScopeOf(t)
    /\ (op.name = "__init__" /\ op.passed = << >>) => op.source_file = ScopeOf(op.thread)

\* thread 1 is back in its outer scope after leaving a nested one by an exception, while
\* thread 2 is inside a scope of another file
C18_Witness ==
    /\ op.name = "exit" /\ op.thread = 1 /\ op.how = "raise"
    /\ Len(tl_frames[1]) = 1 /\ Top(1).at = "body" /\ Top(1).filename = "a.yaml"
    /\ Len(tl_frames[2]) = 1 /\ Top(2).at = "body" /\ Top(2).filename = "b.yaml"
    /\ getattr_value(tl_value, 1) = <<"a.yaml">>
    /\ getattr_value(tl_value, 2) = <<"b.yaml">>

----------------------------------------------------------------------------
(* The effective merge flags of the nodes a build constructs.               *)

\* explicit over implicit over the type's default
Precedence(explicit, implicit, default) ==
    IF explicit # << >> THEN explicit[1]
    ELSE IF implicit # << >> THEN implicit[1]
    ELSE default

\* C22 (as claimed): the effective delete and the effective allow_new of every node are
\* its explicit value when set, else its implicit value when set, else the type default.
C22_FlagPrecedence ==
    \A n \in 1..Len(heap) :
        /\ delete(heap, n) =
              Precedence(heap[n]._delete, heap[n]._implicit_delete, _default_delete)
        /\ allow_new(heap, n) =
              Precedence(heap[n]._allow_new, heap[n]._implicit_allow_new, _default_allow_new)

----------------------------------------------------------------------------
(* The two stores of a ConfigDict: the dict itself (items) and _children.   *)

AsMapping(m) == {<<m[k].name, m[k].node>> : k \in 1..Len(m)}

\* C23 (as claimed): after any sequence of mutating operations the dict of every ConfigDict
\* has the keys of its children mapping, each key mapping to the same node in both.
C23_StoresInStep ==
    \A n \in 1..Len(heap) :
        heap[n].kind = "dict" => AsMapping(heap[n].items) = AsMapping(heap[n]._children)

----------------------------------------------------------------------------
(* A merge whose source tree has no delete flag.                            *)

SourceHasNoDelete == \A n \in Reachable(pre, 2) : ~delete(pre, n)

\* C24 (as claimed): when no node of the source has delete set, every key path of the
\* destination before the merge is a key path of it after the merge, and every key of the
\* source is a key of the merged destination.
C24_MergeOnlyAdds ==
    (MergeDone /\ raised = "" /\ SourceHasNoDelete) =>
        /\ \A path \in TreePaths :
              get_node(pre, 1, path) # None => get_node(heap, 1, path) # None
        /\ \A key \in Names : has_child(pre, 2, key) => has_child(heap, 1, key)

----------------------------------------------------------------------------
(* The order of the map_fn calls of one pass, as premerge, preprocess and   *)
(* evaluate run it: map_nodes(hook, cache_results=True, leafs_only=False).  *)

\* the node c is what set_child stores for the replacement v
InstalledAs(v, c) ==
    IF v.isnode THEN c = v.node
    ELSE c > Len(pre) /\ is_leaf(heap, c) /\ heap[c].value = v.raw

PassDone == MapDone /\ raised = "" /\ op.cache_results /\ ~op.leafs_only

\* C21: in one pass the hook of a composed node is called after the hooks of all the
\* nodes below it, when each of its children is what the child's hook returned; the
\* root's hook is called last.
C21_BottomUp ==
    PassDone =>
        /\ events # << >>
        /\ events[Len(events)].node = 1
        /\ \A i \in 1..Len(events) :
              LET n == events[i].node
              IN  ~is_leaf(pre, n) =>
                    /\ \A d \in Reachable(pre, n) \ {n} :
                          \E j \in 1..(i - 1) : events[j].node = d
                    /\ Len(events[i].children) = Len(pre[n]._children)
                    /\ \A k \in 1..Len(pre[n]._children) :
                          /\ events[i].children[k].name = pre[n]._children[k].name
                          /\ \E j \in 1..(i - 1) :
                                /\ events[j].node = pre[n]._children[k].node
                                /\ InstalledAs(events[j].ret, events[i].children[k].node)

\* a pass replacing every leaf, over a tree two levels deep whose leaf is reached twice
C21_Witness ==
    /\ PassDone
    /\ op.tf = "rebuild"
    /\ pre[1]._children = <<Entry("a", 2)>>
    /\ pre[2]._children = <<Entry("a", 3), Entry("b", 3)>>
    /\ Len(events) = 3
    /\ events[1].node = 3
    /\ events[2].node = 2
    /\ events[2].children = <<Entry("a", 5), Entry("b", 5)>>
    /\ events[3].node = 1

----------------------------------------------------------------------------
(* _get_metadata_content: the scan of a text for inline metadata.  A text   *)
(* is a sequence of symbols: "!" is the tag `!metadata`, ":" "{" "}" are    *)
(* themselves, "x" is any other character.  Positions count from 0, as the  *)
(* code's do, in symbols.                                                   *)

MaxPieces == 3
MaxScanSteps == 4

Pieces ==
    {<<"!", ":", "x">>,                  \* an encoded occurrence, as dump writes it
     <<"!", "{", "{", "x", "}", "}">>,   \* an inline occurrence
     <<"x">>, <<"!">>, <<"{">>, <<"}">>}

RECURSIVE TextsOf(_)
TextsOf(n) ==
    IF n = 0 THEN {<< >>}
    ELSE LET shorter == TextsOf(n - 1)
         IN  shorter \cup {t \o piece : t \in shorter, piece \in Pieces}

Texts == TextsOf(MaxPieces)

\* data[i]
At(data, i) == data[i + 1]

\* data.find(_metadata_tag, start)
FindTag(data, start) ==
    LET found == {i \in 0..(Len(data) - 1) : i >= start /\ At(data, i) = "!"}
    IN  IF found = {} THEN -1 ELSE CHOOSE i \in found : \A j \in found : i <= j

\* data.find('}}', start)
FindClose(data, start) ==
    LET found == {i \in 0..(Len(data) - 2) :
                    i >= start /\ At(data, i) = "}" /\ At(data, i + 1) = "}"}
    IN  IF found = {} THEN -1 ELSE CHOOSE i \in found : \A j \in found : i <= j

\* the braces the tokenizer has open when it reaches the end of the text
ParenLev(data, from) ==
    Cardinality({i \in 0..(Len(data) - 1) : i >= from /\ At(data, i) = "{"})
        - Cardinality({i \in 0..(Len(data) - 1) : i >= from /\ At(data, i) = "}"})

\* _get_metadata_end(data, beg): [err, end], end being << >> for None.  The text is read
\* in pieces ending after each '}}'; the first piece has two '}' tokens in a row at its
\* end.  Without a '}}' the one piece is the rest of the text, and the tokenizer raises at
\* its end when the braces do not balance.
_get_metadata_end(data, beg) ==
    LET close == FindClose(data, beg + 2)
    IN  IF close # -1 THEN [err |-> "", end |-> <<close + 2>>]
        ELSE IF ParenLev(data, beg + 2) # 0 THEN [err |-> "TokenError", end |-> << >>]
        ELSE [err |-> "", end |-> << >>]

ScanInit ==
    /\ scan \in {[data |-> t, curr_pos |-> -1, end |-> << >>, seen |-> << >>] : t \in Texts}
    /\ nodes_memo = << >>
    /\ ret_list = << >>
    /\ events = << >>
    /\ tl_value = << >>
    /\ tl_frames = << >>
    /\ steps = 0
    /\ heap = << >>
    /\ pc = "ready"
    /\ op = NoOp
    /\ pre = << >>
    /\ ret = None
    /\ raised = ""
    /\ calls = << >>
    /\ PathIdle

\* curr_pos = data.find(_metadata_tag)
ScanStart ==
    /\ pc = "ready"
    /\ scan' = [scan EXCEPT !.curr_pos = FindTag(scan.data, 0)]
    /\ pc' = "scan"
    /\ UNCHANGED <<heap, op, pre, ret, raised, calls, nodes_memo, ret_list, events,
                   tl_value, tl_frames, steps>>
    /\ UNCHANGED pathVars

\* while curr_pos != -1: one turn of the loop, or its end
ScanStep ==
    /\ pc = "scan"
    /\ steps < MaxScanSteps
    /\ LET data     == scan.data
           curr_pos == scan.curr_pos
           beg      == curr_pos + 1
           Raise(e) == /\ raised' = e
                       /\ pc' = "done"
                       /\ scan' = [scan EXCEPT !.seen = Append(@, curr_pos)]
                       /\ UNCHANGED <<ret_list, steps>>
           \* curr_pos = data.find(_metadata_tag, end+1), end being what the frame holds
           Advance(end, yielded) ==
               IF end = << >> THEN Raise("UnboundLocalError")
               ELSE /\ scan' = [scan EXCEPT !.curr_pos = FindTag(data, end[1] + 1),
                                            !.end = end,
                                            !.seen = Append(@, curr_pos)]
                    /\ ret_list' = ret_list \o yielded
                    /\ steps' = steps + 1
                    /\ UNCHANGED <<raised, pc>>
       IN  IF curr_pos = -1
           THEN /\ pc' = "done"
                /\ UNCHANGED <<scan, raised, ret_list, steps>>
           ELSE IF beg >= Len(data) THEN Raise("IndexError")
           ELSE IF At(data, beg) = ":" THEN Advance(scan.end, << >>)
           ELSE IF ~(beg + 1 < Len(data) /\ At(data, beg) = "{" /\ At(data, beg + 1) = "{")
           THEN Raise("ValueError")
           ELSE \E r \in {_get_metadata_end(data, beg)} :
                   IF r.err # "" THEN Raise(r.err)
                   ELSE IF r.end = << >> THEN Raise("ValueError")
                   ELSE Advance(r.end, <<(<<beg, r.end[1]>>)>>)
    /\ UNCHANGED <<heap, op, pre, ret, calls, nodes_memo, events, tl_value, tl_frames>>
    /\ UNCHANGED pathVars

ScanNext == ScanStart \/ ScanStep

SpecScan == ScanInit /\ [][ScanNext]_vars

\* the ranges of the inline occurrences of a text from a position on, the encoded ones
\* passed over
RECURSIVE InlineRanges(_, _)
InlineRanges(data, from) ==
    LET pos == FindTag(data, from)
        beg == pos + 1
    IN  IF pos = -1 THEN << >>
        ELSE IF beg + 1 < Len(data) /\ At(data, beg) = "{" /\ At(data, beg + 1) = "{"
                  /\ FindClose(data, beg + 2) # -1
        THEN <<(<<beg, FindClose(data, beg + 2) + 2>>)>>
                \o InlineRanges(data, FindClose(data, beg + 2) + 2)
        ELSE InlineRanges(data, beg)

\* C25 (as claimed): the scan ends on every text, never looking at a position twice; an
\* encoded occurrence is passed over without an error; a scan that ends without an error
\* has yielded one range for each inline occurrence, in order.
C25_ScanSkipsEncoded ==
    /\ pc \in {"scan", "done"} =>
          \A i, j \in 1..Len(scan.seen) : i # j => scan.seen[i] # scan.seen[j]
    /\ raised # "UnboundLocalError"
    /\ (pc = "done" /\ raised = "") => ret_list = InlineRanges(scan.data, 0)

====
